---- MODULE Spec2Model ----
(***************************************************************************)
(* Model of transaction.py: aggregation of pairwise debts into an          *)
(* antisymmetric adjacency graph, net totals per person, and the greedy    *)
(* matching of net debtors to net creditors.                               *)
(*                                                                         *)
(* Amounts are integers (the documented type, "amount: int"); Python       *)
(* integers do not overflow, so no width is modelled.  A dict is a         *)
(* function; the iteration order of a dict's keys, which the source takes  *)
(* from a set of strings, is a nondeterministic choice of an ordering.     *)
(* A Python list item [name, remaining] is the pair <<name, remaining>>;   *)
(* the 0-based cursors keep their Python values and index with + 1.        *)
(***************************************************************************)
EXTENDS Integers, Sequences, FiniteSets

\* ---------------------------------------------------------------- bounds
MaxTx == 2
MaxAmount == 2
MaxCalls == 3

\* The person names of the repository's tests.
People == {"Kevin", "Xander", "John", "William"}

VARIABLES
    pairwise_transactions,  \* the input list of transaction_adjacency_graph
    adjacency_graph,        \* the graph being built / passed to simplify
    t,                      \* number of transactions already folded in
    people_to_total_debt,   \* simplify_transactions: net totals
    receivers,              \* simplify_transactions: [[name, remaining]]
    givers,                 \* simplify_transactions: [[name, remaining]]
    simplified_debt_hash,   \* simplify_transactions: the plan being built
    current_receiver,       \* cursor into receivers (0-based)
    current_giver,          \* cursor into givers (0-based)
    calls,                  \* number of direct update_adjacency_graph calls
    raised,                 \* "none", "AssertionError" or "IndexError"
    pc                      \* position in the program

vars == <<pairwise_transactions, adjacency_graph, t, people_to_total_debt,
          receivers, givers, simplified_debt_hash, current_receiver,
          current_giver, calls, raised, pc>>

\* ---------------------------------------------------------------- dicts
\* The empty dict {}.
EmptyMap == [x \in {} |-> 0]

\* d[k] = v on a dict: the key is created when missing.
Put(d, k, v) == [x \in (DOMAIN d) \cup {k} |-> IF x = k THEN v ELSE d[x]]

\* sum(d.values())
RECURSIVE SumValues(_)
SumValues(d) ==
    IF DOMAIN d = {} THEN 0
    ELSE LET k == CHOOSE x \in DOMAIN d : TRUE
         IN d[k] + SumValues([x \in (DOMAIN d) \ {k} |-> d[x]])

\* Lines 24-27: both endpoints get an (empty) inner dict when missing.
ensure_keys(g, debtor, pay_to) ==
    LET g1 == IF debtor \notin DOMAIN g THEN Put(g, debtor, EmptyMap) ELSE g
    IN IF pay_to \notin DOMAIN g1 THEN Put(g1, pay_to, EmptyMap) ELSE g1

\* Line 30: the assertion fails when the edge exists in one direction only.
assert_fails(g, debtor, pay_to) ==
    LET g2 == ensure_keys(g, debtor, pay_to)
    IN pay_to \in DOMAIN g2[debtor] /\ debtor \notin DOMAIN g2[pay_to]

\* Mutant: line 32 adds the amount to the reverse edge instead of subtracting.
update_adjacency_graph_rev_plus(g, debtor, pay_to, amount) ==
    LET g2 == ensure_keys(g, debtor, pay_to)
    IN IF pay_to \in DOMAIN g2[debtor]
       THEN IF debtor \notin DOMAIN g2[pay_to] THEN g2
            ELSE LET g3 == Put(g2, debtor,
                               Put(g2[debtor], pay_to, g2[debtor][pay_to] + amount))
                 IN Put(g3, pay_to,
                        Put(g3[pay_to], debtor, g3[pay_to][debtor] + amount))
       ELSE LET g3 == Put(g2, debtor, Put(g2[debtor], pay_to, amount))
            IN Put(g3, pay_to, Put(g3[pay_to], debtor, -amount))

\* Mutant: line 35 stores the amount on the reverse edge without negating it.
update_adjacency_graph_init_pos(g, debtor, pay_to, amount) ==
    LET g2 == ensure_keys(g, debtor, pay_to)
    IN IF pay_to \in DOMAIN g2[debtor]
       THEN IF debtor \notin DOMAIN g2[pay_to] THEN g2
            ELSE LET g3 == Put(g2, debtor,
                               Put(g2[debtor], pay_to, g2[debtor][pay_to] + amount))
                 IN Put(g3, pay_to,
                        Put(g3[pay_to], debtor, g3[pay_to][debtor] - amount))
       ELSE LET g3 == Put(g2, debtor, Put(g2[debtor], pay_to, amount))
            IN Put(g3, pay_to, Put(g3[pay_to], debtor, amount))

\* Mutant: lines 31-32 overwrite the edge instead of accumulating.
update_adjacency_graph_overwrite(g, debtor, pay_to, amount) ==
    LET g2 == ensure_keys(g, debtor, pay_to)
        g3 == Put(g2, debtor, Put(g2[debtor], pay_to, amount))
    IN IF pay_to \in DOMAIN g2[debtor] /\ debtor \notin DOMAIN g2[pay_to]
       THEN g2
       ELSE Put(g3, pay_to, Put(g3[pay_to], debtor, -amount))

\* Lines 17-35.  The two assignments of each branch are applied in order, as
\* the statements are.  When the assertion of line 30 fails the graph is left
\* as lines 24-27 made it (the caller records the AssertionError).
update_adjacency_graph(g, debtor, pay_to, amount) ==
    LET g2 == ensure_keys(g, debtor, pay_to)
    IN IF pay_to \in DOMAIN g2[debtor]
       THEN IF debtor \notin DOMAIN g2[pay_to] THEN g2
            ELSE LET g3 == Put(g2, debtor,
                               Put(g2[debtor], pay_to, g2[debtor][pay_to] + amount))
                 IN Put(g3, pay_to,
                        Put(g3[pay_to], debtor, g3[pay_to][debtor] - amount))
       ELSE LET g3 == Put(g2, debtor, Put(g2[debtor], pay_to, amount))
            IN Put(g3, pay_to, Put(g3[pay_to], debtor, -amount))

\* ------------------------------------------------- transaction lists
\* A transaction dict with a positive amount and two distinct people.
ValidTransactions ==
    {tr \in [debtor : People, pay_to : People, amount : 1..MaxAmount] :
        tr.debtor # tr.pay_to}

TransactionLists == UNION {[1..n -> ValidTransactions] : n \in 0..MaxTx}

\* Lines 50-51.
all_people(txs) ==
    {txs[i].debtor : i \in 1..Len(txs)} \cup {txs[i].pay_to : i \in 1..Len(txs)}

\* Lines 67-70: the totals of people_and_total_debt.
people_and_total_debt(g) == [k \in DOMAIN g |-> SumValues(g[k])]

\* All orders in which the keys of a dict can be iterated.
KeyOrders(S) ==
    {s \in [1..Cardinality(S) -> S] :
        \A i, j \in 1..Cardinality(S) : i # j => s[i] # s[j]}

\* Mutant: line 85 tests >= 0, so settled people become givers.
givers_of_nonneg(order, total) ==
    LET sel == SelectSeq(order, LAMBDA p : total[p] >= 0)
    IN [i \in 1..Len(sel) |-> <<sel[i], total[sel[i]]>>]

\* Mutant: line 82 keeps the (negative) total instead of negating it.
receivers_of_unnegated(order, total) ==
    LET sel == SelectSeq(order, LAMBDA p : total[p] < 0)
    IN [i \in 1..Len(sel) |-> <<sel[i], total[sel[i]]>>]

\* Lines 82-83.
receivers_of(order, total) ==
    LET sel == SelectSeq(order, LAMBDA p : total[p] < 0)
    IN [i \in 1..Len(sel) |-> <<sel[i], -total[sel[i]]>>]

\* Lines 84-85.
givers_of(order, total) ==
    LET sel == SelectSeq(order, LAMBDA p : total[p] > 0)
    IN [i \in 1..Len(sel) |-> <<sel[i], total[sel[i]]>>]

\* Mutant: line 92 compares with <=, so a tie takes the giver branch.
giver_branch_le(gs, rs, cg, cr) == gs[cg + 1][2] <= rs[cr + 1][2]

\* Line 92.
giver_branch(gs, rs, cg, cr) == gs[cg + 1][2] < rs[cr + 1][2]

\* Lines 93 and 102.
give_amount(gs, rs, cg, cr) ==
    IF giver_branch(gs, rs, cg, cr) THEN gs[cg + 1][2] ELSE rs[cr + 1][2]

\* Mutant: the decrements of lines 96-97 and 105-106 are missing.
decrement_keep(list, cursor, amount) == list

\* Lines 96-97 and 105-106: list[cursor][1] -= amount.
decrement(list, cursor, amount) ==
    [list EXCEPT ![cursor + 1] = <<@[1], @[2] - amount>>]

\* Mutant: the commented-out assignment of lines 98 and 107.
record_payment_assign(h, give_name, receive_name, amount) ==
    Put(h, give_name, Put(EmptyMap, receive_name, amount))

\* Lines 99 and 108.
record_payment(h, give_name, receive_name, amount) ==
    update_adjacency_graph(h, give_name, receive_name, amount)

\* ---------------------------------------------------------------- Init
Init ==
    /\ pairwise_transactions \in TransactionLists
    /\ adjacency_graph = EmptyMap
    /\ t = 0
    /\ people_to_total_debt = EmptyMap
    /\ receivers = <<>>
    /\ givers = <<>>
    /\ simplified_debt_hash = EmptyMap
    /\ current_receiver = 0
    /\ current_giver = 0
    /\ calls = 0
    /\ raised = "none"
    /\ pc = "input"

\* ------------------------------------- transaction_adjacency_graph
\* Lines 50-52: one empty inner dict per person of the list.
BuildStart ==
    /\ pc = "input"
    /\ adjacency_graph' = [k \in all_people(pairwise_transactions) |-> EmptyMap]
    /\ t' = 0
    /\ pc' = "fill"
    /\ UNCHANGED <<pairwise_transactions, people_to_total_debt, receivers,
                   givers, simplified_debt_hash, current_receiver,
                   current_giver, calls, raised>>

\* Lines 54-58: one iteration of the fill loop.
FillStep ==
    /\ pc = "fill"
    /\ t < Len(pairwise_transactions)
    /\ LET transaction == pairwise_transactions[t + 1]
           debtor == transaction.debtor
           pay_to == transaction.pay_to
           amount == transaction.amount
       IN /\ adjacency_graph' =
                 update_adjacency_graph(adjacency_graph, debtor, pay_to, amount)
          /\ IF assert_fails(adjacency_graph, debtor, pay_to)
             THEN raised' = "AssertionError" /\ pc' = "raised" /\ t' = t
             ELSE raised' = raised /\ pc' = pc /\ t' = t + 1
    /\ UNCHANGED <<pairwise_transactions, people_to_total_debt, receivers,
                   givers, simplified_debt_hash, current_receiver,
                   current_giver, calls>>

\* Line 59: the graph is returned.
BuildReturn ==
    /\ pc = "fill"
    /\ t = Len(pairwise_transactions)
    /\ pc' = "built"
    /\ UNCHANGED <<pairwise_transactions, adjacency_graph, t,
                   people_to_total_debt, receivers, givers,
                   simplified_debt_hash, current_receiver, current_giver,
                   calls, raised>>

\* ------------------------------------------ simplify_transactions
\* Lines 81-90: totals, the two lists (in the key order of the graph), the
\* empty plan and the cursors.
SimplifyStart ==
    /\ pc = "built"
    /\ \E order \in KeyOrders(DOMAIN adjacency_graph) :
          LET total == people_and_total_debt(adjacency_graph)
          IN /\ people_to_total_debt' = total
             /\ receivers' = receivers_of(order, total)
             /\ givers' = givers_of(order, total)
    /\ simplified_debt_hash' = EmptyMap
    /\ current_receiver' = 0
    /\ current_giver' = 0
    /\ pc' = "loop"
    /\ UNCHANGED <<pairwise_transactions, adjacency_graph, t, calls, raised>>

\* Lines 91-109: one iteration of the while loop.  Reading
\* givers[current_giver] past the end of the list raises IndexError.
LoopStep ==
    /\ pc = "loop"
    /\ current_receiver < Len(receivers)
    /\ IF current_giver >= Len(givers)
       THEN /\ raised' = "IndexError"
            /\ pc' = "raised"
            /\ UNCHANGED <<givers, receivers, simplified_debt_hash,
                           current_giver, current_receiver>>
       ELSE LET amount == give_amount(givers, receivers, current_giver,
                                      current_receiver)
                give_name == givers[current_giver + 1][1]
                receive_name == receivers[current_receiver + 1][1]
            IN /\ givers' = decrement(givers, current_giver, amount)
               /\ receivers' = decrement(receivers, current_receiver, amount)
               /\ simplified_debt_hash' =
                      record_payment(simplified_debt_hash, give_name,
                                     receive_name, amount)
               /\ IF assert_fails(simplified_debt_hash, give_name, receive_name)
                  THEN /\ raised' = "AssertionError"
                       /\ pc' = "raised"
                       /\ UNCHANGED <<current_giver, current_receiver>>
                  ELSE /\ raised' = raised
                       /\ pc' = pc
                       /\ IF giver_branch(givers, receivers, current_giver,
                                          current_receiver)
                          THEN /\ current_giver' = current_giver + 1
                               /\ current_receiver' = current_receiver
                          ELSE /\ current_receiver' = current_receiver + 1
                               /\ current_giver' = current_giver
    /\ UNCHANGED <<pairwise_transactions, adjacency_graph, t,
                   people_to_total_debt, calls>>

\* Line 110: the loop condition is false and the plan is returned.
SimplifyReturn ==
    /\ pc = "loop"
    /\ current_receiver >= Len(receivers)
    /\ pc' = "done"
    /\ UNCHANGED <<pairwise_transactions, adjacency_graph, t,
                   people_to_total_debt, receivers, givers,
                   simplified_debt_hash, current_receiver, current_giver,
                   calls, raised>>

Next ==
    \/ BuildStart
    \/ FillStep
    \/ BuildReturn
    \/ SimplifyStart
    \/ LoopStep
    \/ SimplifyReturn

Spec == Init /\ [][Next]_vars

\* -------------------------------------- direct calls of the primitive
\* update_adjacency_graph called by a client on its own graph: any two
\* distinct people, any amount (positive, zero or negative), starting from an
\* empty graph or from one with only empty inner mappings.
InitUpdate ==
    /\ pairwise_transactions = <<>>
    /\ adjacency_graph \in {[p \in S |-> EmptyMap] : S \in SUBSET People}
    /\ t = 0
    /\ people_to_total_debt = EmptyMap
    /\ receivers = <<>>
    /\ givers = <<>>
    /\ simplified_debt_hash = EmptyMap
    /\ current_receiver = 0
    /\ current_giver = 0
    /\ calls = 0
    /\ raised = "none"
    /\ pc = "update"

\* Lines 17-35, one call.
UpdateCall ==
    /\ pc = "update"
    /\ calls < MaxCalls
    /\ \E debtor \in People, pay_to \in People, amount \in -MaxAmount..MaxAmount :
          /\ debtor # pay_to
          /\ adjacency_graph' =
                 update_adjacency_graph(adjacency_graph, debtor, pay_to, amount)
          /\ IF assert_fails(adjacency_graph, debtor, pay_to)
             THEN raised' = "AssertionError" /\ pc' = "raised"
             ELSE raised' = raised /\ pc' = pc
    /\ calls' = calls + 1
    /\ UNCHANGED <<pairwise_transactions, t, people_to_total_debt, receivers,
                   givers, simplified_debt_hash, current_receiver,
                   current_giver>>

SpecUpdate == InitUpdate /\ [][UpdateCall]_vars

\* ------------------------------------------------ auxiliary operators
\* Sum of the amounts of the transactions of txs where person is the debtor.
RECURSIVE SumAsDebtor(_, _)
SumAsDebtor(txs, person) ==
    IF txs = <<>> THEN 0
    ELSE (IF Head(txs).debtor = person THEN Head(txs).amount ELSE 0)
         + SumAsDebtor(Tail(txs), person)

\* Sum of the amounts of the transactions of txs where person is the pay_to.
RECURSIVE SumAsPayTo(_, _)
SumAsPayTo(txs, person) ==
    IF txs = <<>> THEN 0
    ELSE (IF Head(txs).pay_to = person THEN Head(txs).amount ELSE 0)
         + SumAsPayTo(Tail(txs), person)

\* Sum of the remaining amounts of list[from:] (from is 0-based).
RECURSIVE SumRemaining(_, _)
SumRemaining(list, from) ==
    IF from >= Len(list) THEN 0
    ELSE list[from + 1][2] + SumRemaining(list, from + 1)

\* Net totals of the graph handed to simplify_transactions.
Totals == people_and_total_debt(adjacency_graph)
NetDebtors == {p \in DOMAIN adjacency_graph : Totals[p] > 0}
NetCreditors == {p \in DOMAIN adjacency_graph : Totals[p] < 0}
Settled == {p \in DOMAIN adjacency_graph : Totals[p] = 0}

\* sum(simplified[P].values()), 0 when P has no entry.
PlanSum(P) ==
    IF P \in DOMAIN simplified_debt_hash
    THEN SumValues(simplified_debt_hash[P]) ELSE 0

\* The state is the start of an iteration of the while loop.
AtIteration == pc = "loop" /\ current_receiver < Len(receivers)

\* The state is the start of an iteration whose giver and receiver tie.
AtTie ==
    /\ AtIteration
    /\ current_giver < Len(givers)
    /\ givers[current_giver + 1][2] = receivers[current_receiver + 1][2]

\* ---------------------------------------------------------------- claims

\* C1: once simplify_transactions has returned, for every person P of the
\* transaction list the sum of the values of simplified[P] (0 when P has no
\* entry) equals P's net total in the original adjacency graph.
C1_SimplifiedConservation ==
    pc = "done" =>
        \A P \in all_people(pairwise_transactions) : PlanSum(P) = Totals[P]

\* C1 witness: a returned plan in which one person has two entries.
C1_Witness ==
    /\ pc = "done"
    /\ \E P \in DOMAIN simplified_debt_hash :
          /\ Cardinality(DOMAIN simplified_debt_hash[P]) >= 2
          /\ Totals[P] > 0

\* C2: for every person P of the list, the net total of the built graph is
\* the sum of the amounts P owes minus the sum of the amounts owed to P, for
\* every list (every order, repeated pairs in either direction).
C2_NetTotals ==
    pc = "built" =>
        \A P \in all_people(pairwise_transactions) :
            /\ P \in DOMAIN adjacency_graph
            /\ people_and_total_debt(adjacency_graph)[P] =
                   SumAsDebtor(pairwise_transactions, P)
                   - SumAsPayTo(pairwise_transactions, P)

\* C2 witness: a built graph of two transactions between the same pair in
\* opposite directions with different amounts.
C2_Witness ==
    /\ pc = "built"
    /\ Len(pairwise_transactions) = 2
    /\ pairwise_transactions[1].debtor = pairwise_transactions[2].pay_to
    /\ pairwise_transactions[1].pay_to = pairwise_transactions[2].debtor
    /\ pairwise_transactions[1].amount < pairwise_transactions[2].amount

\* C3 (as claimed): in the plan, every entry recorded between a net debtor G
\* and a net creditor R is strictly positive in the direction G pays R and
\* the reverse entry is its negative; no zero entry is recorded.
C3_PositivePayments ==
    pc \in {"loop", "done"} =>
        \A G \in NetDebtors, R \in NetCreditors :
            (G \in DOMAIN simplified_debt_hash
             /\ R \in DOMAIN simplified_debt_hash[G]) =>
                /\ simplified_debt_hash[G][R] > 0
                /\ R \in DOMAIN simplified_debt_hash
                /\ G \in DOMAIN simplified_debt_hash[R]
                /\ simplified_debt_hash[R][G] = -simplified_debt_hash[G][R]

\* C4: the net totals of a built graph sum to exactly 0.
C4_Conservation ==
    pc = "built" => SumValues(people_and_total_debt(adjacency_graph)) = 0

\* C4 witness: a built graph of two transactions with a nonzero total.
C4_Witness ==
    /\ pc = "built"
    /\ Len(pairwise_transactions) = 2
    /\ \E P \in DOMAIN adjacency_graph :
          people_and_total_debt(adjacency_graph)[P] > 0

\* C5: after any sequence of calls of update_adjacency_graph with
\* debtor # pay_to, Q is a key of graph[P] exactly when P is a key of
\* graph[Q], then graph[P][Q] = -graph[Q][P], and the assertion of line 30
\* has not failed.
C5_Antisymmetry ==
    /\ raised = "none"
    /\ \A P \in DOMAIN adjacency_graph :
          \A Q \in People :
              /\ Q \in DOMAIN adjacency_graph[P] <=>
                     (Q \in DOMAIN adjacency_graph
                      /\ P \in DOMAIN adjacency_graph[Q])
              /\ Q \in DOMAIN adjacency_graph[P] =>
                     adjacency_graph[P][Q] = -adjacency_graph[Q][P]

\* C5 witness: an edge that only accumulation can produce.
C5_Witness ==
    /\ calls >= 2
    /\ \E P \in DOMAIN adjacency_graph :
          \E Q \in DOMAIN adjacency_graph[P] :
              adjacency_graph[P][Q] > MaxAmount

\* C6: with exactly one net creditor R, the returned plan is exactly the
\* direct payments: keys are the net debtors and R, each net debtor G has the
\* single entry {R: total[G]}, and R maps every net debtor G to -total[G].
C6_SingleReceiver ==
    (pc = "done" /\ Cardinality(NetCreditors) = 1) =>
        LET R == CHOOSE r \in NetCreditors : TRUE
        IN /\ DOMAIN simplified_debt_hash = NetDebtors \cup {R}
           /\ \A G \in NetDebtors :
                 simplified_debt_hash[G] = Put(EmptyMap, R, Totals[G])
           /\ simplified_debt_hash[R] = [G \in NetDebtors |-> -Totals[G]]

\* C6 witness: a returned plan with one net creditor and two net debtors.
C6_Witness ==
    /\ pc = "done"
    /\ Cardinality(NetCreditors) = 1
    /\ Cardinality(NetDebtors) = 2

\* C7: a person whose net total is 0 is neither a key of the plan nor a key
\* of any inner mapping of it; when every net total is 0 the returned plan is
\* the empty mapping.
C7_SettledAbsent ==
    pc \in {"loop", "done"} =>
        /\ \A P \in Settled :
              /\ P \notin DOMAIN simplified_debt_hash
              /\ \A Q \in DOMAIN simplified_debt_hash :
                    P \notin DOMAIN simplified_debt_hash[Q]
        /\ (Settled = DOMAIN adjacency_graph) => simplified_debt_hash = EmptyMap

\* C7 witness: a returned, non-empty plan next to a settled person.
C7_Witness ==
    /\ pc = "done"
    /\ Settled # {}
    /\ simplified_debt_hash # EmptyMap

\* C8 (as claimed): on a tie only the giver cursor is advanced.
C8_TieAdvancesGiver ==
    [][AtTie => (current_giver' = current_giver + 1
                 /\ current_receiver' = current_receiver)]_vars

\* C8 (amended): on a tie only the receiver cursor is advanced; when
\* receivers remain, the next iteration finds the giver's remaining amount 0,
\* transfers 0 and advances only the giver cursor.
C8_TieAdvancesReceiver ==
    [][/\ AtTie => (/\ current_receiver' = current_receiver + 1
                    /\ current_giver' = current_giver
                    /\ givers'[current_giver + 1][2] = 0
                    /\ pc' = "loop")
       /\ (AtIteration /\ current_giver < Len(givers)
           /\ givers[current_giver + 1][2] = 0) =>
              (/\ current_giver' = current_giver + 1
               /\ current_receiver' = current_receiver
               /\ givers' = givers
               /\ receivers' = receivers)]_vars

\* C8 witness: the iteration after a tie, with receivers remaining: the
\* receiver cursor has advanced and the current giver has nothing left.
C8_Witness ==
    /\ AtIteration
    /\ current_receiver >= 1
    /\ current_giver < Len(givers)
    /\ givers[current_giver + 1][2] = 0
    /\ receivers[current_receiver][2] = 0

\* C9 (as claimed): no iteration reads givers[current_giver] past the end of
\* the list, every iteration zeroes the remaining amount of one of the two
\* current entries, and every iteration strictly reduces the total remaining
\* amount still to be matched.
C9_EveryIterationReduces ==
    [][AtIteration =>
          /\ raised' = "none"
          /\ current_giver < Len(givers)
          /\ \/ givers'[current_giver + 1][2] = 0
             \/ receivers'[current_receiver + 1][2] = 0
          /\ SumRemaining(receivers', 0) < SumRemaining(receivers, 0)
          /\ SumRemaining(givers', 0) < SumRemaining(givers, 0)]_vars

\* C10: at the start of every iteration and at loop exit the remaining
\* amounts of givers[current_giver:] and receivers[current_receiver:] have the
\* same sum; once the loop has exited every remaining amount is 0.
C10_LoopInvariant ==
    /\ pc = "loop" =>
          SumRemaining(givers, current_giver) =
              SumRemaining(receivers, current_receiver)
    /\ (pc = "done" \/ (pc = "loop" /\ current_receiver >= Len(receivers))) =>
          /\ \A i \in 1..Len(givers) : givers[i][2] = 0
          /\ \A i \in 1..Len(receivers) : receivers[i][2] = 0

\* C10 witness: the start of an iteration after both cursors have moved.
C10_Witness ==
    /\ AtIteration
    /\ current_giver >= 1
    /\ current_receiver >= 1
    /\ receivers[current_receiver + 1][2] > 0

====
